---- MODULE Spec2Model ----
(***************************************************************************)
(* Job-status polling client of the video-to-content web application:      *)
(* ApiClient.getJobStatus / ApiClient.pollJobStatus (frontend/lib/api.ts)   *)
(* and the results page that consumes them.  One step of the model is one  *)
(* macrotask of the browser's event loop: a call from the caller, the      *)
(* arrival of a fetch response (with the continuation of poll() that the   *)
(* await resumes), or the firing of a timer set by setTimeout.             *)
(***************************************************************************)
EXTENDS Integers, Sequences, FiniteSets, TLC

\* Number of responses / queries / callback invocations the history
\* variables of one loop record; later ones still happen, unrecorded.
MaxPolls == 3

\* Number of times the results page may be mounted in one behaviour.
MaxMounts == 1

\* interval: number = 2000
DefaultInterval == 2000

(***************************************************************************)
(* Values                                                                  *)
(***************************************************************************)
LoopIds == {1, 2}

JobIds == {"job-a", "job-b"}

\* JobStatusResponse.status
Statuses == {"pending", "processing", "completed", "failed"}

\* JobStatusResponse: status, progress_percent, message, and whether the
\* optional results payload is present.
Snap(s, p, m, r) ==
  [status |-> s, progress_percent |-> p, message |-> m, results |-> r]

Snapshots ==
  { Snap("pending", 0, "", FALSE),
    Snap("processing", 40, "Transcribing", FALSE),
    Snap("completed", 100, "Done", TRUE),
    Snap("completed", 100, "", FALSE),
    Snap("failed", 40, "Transcription error", FALSE),
    Snap("failed", 0, "", FALSE) }

InitialSnapshot == Snap("pending", 0, "", FALSE)

\* How one fetch of GET /jobs/{job_id} can end.
\*   ok          2xx, body parses as JSON: the job's snapshot
\*   badjson     2xx, body does not parse
\*   http        non-2xx, body parses as {detail}
\*   http_nojson non-2xx, body does not parse
\*   network     fetch itself rejects
TransportKinds == {"ok", "badjson", "http", "http_nojson", "network"}

Details == {"", "Job not found"}

\* The interval argument of a call: <<>> when omitted, <<n>> when given.
IntervalArgs == {<<>>, <<500>>, <<0>>, <<-100>>}

\* The onUpdate argument of a call: "none" when omitted, "collect" a caller's
\* function that returns, "throws" one that throws, "page" the results
\* page's (status) => setJobStatus(status).
PlainCallbacks == {"none", "collect"}

\* Keys of localStorage the application names.
StorageKeys == {"token", "auth-storage"}

Err(n, m) == [name |-> n, message |-> m]

NetworkError == Err("TypeError", "Failed to fetch")
ParseError == Err("SyntaxError", "Unexpected token")
CallbackError == Err("Error", "onUpdate threw")

VARIABLES
  job,          \* server side: job id -> current snapshot (JobStatusSource)
  loop,         \* loop id -> state of one pollJobStatus call
  pageInst,     \* number of ResultsPage instances mounted so far
  pageMounted,  \* whether the latest instance is still mounted
  pageJobId,    \* params.jobId of the mounted page
  jobStatus,    \* useState<JobStatusResponse | null>: <<>> or <<snapshot>>
  pageError,    \* useState<string | null>: <<>> or <<message>>
  shownJob,     \* job id of the poll that last set jobStatus or pageError
  localStorage, \* window.localStorage: key -> <<>> (no item) or <<string>>
  upload,       \* one api.uploadVideo call and its XMLHttpRequest
  auth,         \* useAuthStore state: user, token, isAuthenticated
  authCalls,    \* call id -> one login / signup call of the auth store
  staleAuth,    \* the store was last set by a call that a logout overtook
  form          \* state of the UploadPage component

vars ==
  <<job, loop, pageInst, pageMounted, pageJobId, jobStatus, pageError,
    shownJob, localStorage, upload, auth, authCalls, staleAuth, form>>

pageVars ==
  <<pageInst, pageMounted, pageJobId, jobStatus, pageError, shownJob>>

authVars == <<auth, authCalls, staleAuth>>

(***************************************************************************)
(* One pollJobStatus call                                                  *)
(***************************************************************************)
Unsettled == [state |-> "pending", value |-> <<>>]

IdleLoop ==
  [ started  |-> FALSE,
    jobId    |-> "",
    cb       |-> "none",
    owner    |-> 0,          \* page instance that made the call, 0: none
    interval |-> 0,
    issued   |-> 0,          \* status queries sent (recorded up to MaxPolls)
    inflight |-> 0,          \* status queries sent and not yet answered
    timers   |-> <<>>,       \* delays of the setTimeout timers not yet fired
    received |-> <<>>,       \* results of getJobStatus, in order of arrival
    headers  |-> <<>>,       \* Authorization header of each query sent
    fetched  |-> <<>>,       \* how each fetch ended: [kind, detail]
    calls    |-> <<>>,       \* snapshots handed to onUpdate, in order
    callSaw  |-> <<>>,       \* what each onUpdate call found: resolve /
                             \* reject calls made and timers set so far
    sawTerminal |-> FALSE,   \* a completed or failed snapshot was received
    sawFailure  |-> FALSE,   \* a getJobStatus call threw
    settles  |-> 0,          \* calls of resolve / reject made
    outcome  |-> Unsettled ] \* state of the promise returned

\* History, kept for the first MaxPolls entries.
Record(seq, x) == IF Len(seq) < MaxPolls THEN Append(seq, x) ELSE seq

Count(n) == IF n < MaxPolls THEN n + 1 ELSE n

IsTerminal(s) == s.status \in {"completed", "failed"}

(***************************************************************************)
(* ApiClient.getJobStatus: the value it returns or the error it throws,    *)
(* given how the fetch ended (k), the detail of an error body (d) and the  *)
(* job's snapshot on the server (s).                                       *)
(***************************************************************************)
Returned(s) == [ok |-> TRUE, value |-> <<s>>, error |-> <<>>]

Thrown(e) == [ok |-> FALSE, value |-> <<>>, error |-> <<e>>]

\* Variant: the detail of the error body is not used.
GetJobStatusNoDetail(k, d, s) ==
  CASE k = "network" -> Thrown(NetworkError)
    [] k = "http" -> Thrown(Err("Error", "Failed to get job status"))
    [] k = "http_nojson" -> Thrown(ParseError)
    [] k = "badjson" -> Thrown(ParseError)
    [] OTHER -> Returned(s)

GetJobStatus(k, d, s) ==
  CASE k = "network" -> Thrown(NetworkError)
    [] k = "http" ->
         Thrown(Err("Error", IF d # "" THEN d ELSE "Failed to get job status"))
    [] k = "http_nojson" -> Thrown(ParseError)
    [] k = "badjson" -> Thrown(ParseError)
    [] OTHER -> Returned(s)

(***************************************************************************)
(* The promise pollJobStatus returns: the first resolve or reject settles  *)
(* it, later ones change nothing.                                          *)
(***************************************************************************)
PromiseResolve(lp, v) ==
  [lp EXCEPT !.settles = @ + 1,
             !.outcome = IF @.state = "pending"
                         THEN [state |-> "resolved", value |-> <<v>>]
                         ELSE @]

PromiseReject(lp, e) ==
  [lp EXCEPT !.settles = @ + 1,
             !.outcome = IF @.state = "pending"
                         THEN [state |-> "rejected", value |-> <<e>>]
                         ELSE @]

\* setTimeout(poll, delay)
SetTimeout(lp, delay) == [lp EXCEPT !.timers = Append(@, delay)]

\* What an onUpdate call finds done by poll() before it.
Seen(lp) == [settles |-> lp.settles, timers |-> Len(lp.timers)]

\* Variant: the callback sees the intermediate snapshots only.
InvokeCallbackIntermediateOnly(lp, s) ==
  IF lp.cb = "none" \/ IsTerminal(s) THEN lp
  ELSE [lp EXCEPT !.calls = Record(@, s), !.callSaw = Record(@, Seen(lp))]

\* if (onUpdate) { onUpdate(status); }
InvokeCallback(lp, s) ==
  IF lp.cb = "none" THEN lp
  ELSE [lp EXCEPT !.calls = Record(@, s), !.callSaw = Record(@, Seen(lp))]

\* Variant: the job's message is dropped from the error.
JobFailedErrorGeneric(s) == Err("Error", "Job failed")

\* new Error(status.message || 'Job failed')
JobFailedError(s) ==
  Err("Error", IF s.message # "" THEN s.message ELSE "Job failed")

\* Variant: the next tick is scheduled whatever the status.
DispatchKeepsPolling(lp, s) ==
  SetTimeout(IF s.status = "completed" THEN PromiseResolve(lp, s)
             ELSE IF s.status = "failed"
                  THEN PromiseReject(lp, JobFailedError(s))
                  ELSE lp,
             lp.interval)

\* Variant: the delay grows with the number of queries sent.
DispatchBackoff(lp, s) ==
  IF s.status = "completed" THEN PromiseResolve(lp, s)
  ELSE IF s.status = "failed" THEN PromiseReject(lp, JobFailedError(s))
  ELSE SetTimeout(lp, lp.interval * lp.issued)

\* Variant: the loop gives up after two queries.
DispatchAttemptLimit(lp, s) ==
  IF s.status = "completed" THEN PromiseResolve(lp, s)
  ELSE IF s.status = "failed" THEN PromiseReject(lp, JobFailedError(s))
  ELSE IF lp.issued >= 2 THEN PromiseReject(lp, Err("Error", "Timed out"))
  ELSE SetTimeout(lp, lp.interval)

\* Variant: a processing job is not polled again.
DispatchStopsOnProcessing(lp, s) ==
  IF s.status = "completed" THEN PromiseResolve(lp, s)
  ELSE IF s.status = "failed" THEN PromiseReject(lp, JobFailedError(s))
  ELSE IF s.status = "processing" THEN lp
  ELSE SetTimeout(lp, lp.interval)

\* The branch of poll() on the status of a snapshot the callback accepted.
Dispatch(lp, s) ==
  IF s.status = "completed" THEN PromiseResolve(lp, s)
  ELSE IF s.status = "failed" THEN PromiseReject(lp, JobFailedError(s))
  ELSE SetTimeout(lp, lp.interval)

\* Variant: the callback runs after the branch on the status.
PollContinuationCallbackLast(lp, res) ==
  IF ~res.ok THEN PromiseReject(lp, res.error[1])
  ELSE LET s == res.value[1]
       IN  IF lp.cb = "throws"
           THEN PromiseReject(InvokeCallback(Dispatch(lp, s), s), CallbackError)
           ELSE InvokeCallback(Dispatch(lp, s), s)

\* Variant: an exception of the callback is swallowed and poll() goes on.
PollContinuationSwallows(lp, res) ==
  IF ~res.ok THEN PromiseReject(lp, res.error[1])
  ELSE LET s == res.value[1]
       IN  Dispatch(InvokeCallback(lp, s), s)

\* Variant: a query that threw is retried after the interval.
PollContinuationRetries(lp, res) ==
  IF ~res.ok THEN SetTimeout(lp, lp.interval)
  ELSE LET s == res.value[1]
           called == InvokeCallback(lp, s)
       IN  IF lp.cb = "throws" THEN PromiseReject(called, CallbackError)
           ELSE Dispatch(called, s)

\* poll() from the point where `await this.getJobStatus(jobId)` resumes
\* with res, to its end.
PollContinuation(lp, res) ==
  IF ~res.ok THEN PromiseReject(lp, res.error[1])
  ELSE LET s == res.value[1]
           called == InvokeCallback(lp, s)
       IN  IF lp.cb = "throws" THEN PromiseReject(called, CallbackError)
           ELSE Dispatch(called, s)

\* ApiClient.getToken: localStorage.getItem('token'); <<>> is null.
GetToken == localStorage["token"]

\* if (token): null and the empty string are falsy.
Truthy(tok) == tok # <<>> /\ tok[1] # ""

\* `Bearer ${token}`
Bearer(tok) == [scheme |-> "Bearer", token |-> tok[1]]

\* The Authorization header getJobStatus sends: <<>> when it sets none.
StatusHeaders(tok) == IF Truthy(tok) THEN <<Bearer(tok)>> ELSE <<>>

\* Variant: the next tick is scheduled when the request is sent.
PollFixedRate(lp) ==
  [lp EXCEPT !.issued = Count(@), !.inflight = @ + 1,
             !.headers = Record(@, StatusHeaders(GetToken)),
             !.timers = Append(@, lp.interval)]

\* poll() up to its await: getJobStatus reads the token and sends the
\* request.
Poll(lp) ==
  [lp EXCEPT !.issued = Count(@), !.inflight = @ + 1,
             !.headers = Record(@, StatusHeaders(GetToken))]

\* interval: number = 2000
IntervalOf(ia) == IF ia = <<>> THEN DefaultInterval ELSE ia[1]

\* Variant: the first poll waits for the interval too.
PollJobStatusDelayed(j, cb, ia, owner) ==
  SetTimeout([IdleLoop EXCEPT !.started = TRUE, !.jobId = j, !.cb = cb,
                              !.owner = owner, !.interval = IntervalOf(ia)],
             IntervalOf(ia))

\* pollJobStatus(jobId, onUpdate, interval): the executor runs poll() at once.
PollJobStatus(j, cb, ia, owner) ==
  Poll([IdleLoop EXCEPT !.started = TRUE, !.jobId = j, !.cb = cb,
                        !.owner = owner, !.interval = IntervalOf(ia)])

(***************************************************************************)
(* ApiClient.uploadVideo                                                   *)
(***************************************************************************)
Files == {"clip.mp4", "talk.mov"}

\* xhr.status of a response that arrived.
HttpStatuses == {200, 201, 299, 300, 400, 401, 500}

\* xhr.responseText: text that JSON.parse rejects, or a JSON object with
\* its detail and job_id members ("" when it has none).
Body(p, d, j) == [parses |-> p, detail |-> d, job_id |-> j]

Bodies ==
  { Body(FALSE, "", ""),
    Body(TRUE, "", "job-a"),
    Body(TRUE, "Insufficient credits", ""),
    Body(TRUE, "", "") }

\* Upload progress events: e.loaded of e.total bytes, e.lengthComputable.
ProgressTotal == 3

IdleUpload ==
  [ called   |-> FALSE,
    file     |-> "",
    token    |-> <<>>,    \* const token = this.getToken()
    xhr      |-> "none",  \* none, sending, loaded, errored
    opened   |-> FALSE,   \* xhr.open('POST', .../upload) ran
    sent     |-> FALSE,   \* xhr.send(formData) ran
    authorization |-> <<>>,  \* the Authorization request header, if set
    progress |-> <<>>,    \* last value handed to onProgress, if any
    response |-> <<>>,    \* [status, body] of the load event, if any
    settles  |-> 0,       \* times the returned promise was resolved/rejected
    outcome  |-> Unsettled ]

\* Variant: the request goes out whatever getToken returned.
UploadVideoUnchecked(f, tok) ==
  [IdleUpload EXCEPT !.called = TRUE, !.file = f, !.token = tok,
                     !.xhr = "sending", !.opened = TRUE, !.sent = TRUE,
                     !.authorization =
                        <<[scheme |-> "Bearer",
                           token |-> IF tok = <<>> THEN "null" ELSE tok[1]]>>]

\* uploadVideo(file, onProgress) with getToken() = tok, up to xhr.send.
UploadVideo(f, tok) ==
  IF ~Truthy(tok)
  THEN PromiseReject([IdleUpload EXCEPT !.called = TRUE, !.file = f,
                                        !.token = tok],
                     Err("Error", "Not authenticated. Please log in."))
  ELSE [IdleUpload EXCEPT !.called = TRUE, !.file = f, !.token = tok,
                          !.xhr = "sending", !.opened = TRUE, !.sent = TRUE,
                          !.authorization = <<Bearer(tok)>>]

\* Math.round((e.loaded / e.total) * 100)
ProgressPercent(loaded, total) == (200 * loaded + total) \div (2 * total)

\* The 'progress' listener.
XhrProgress(up, computable, loaded, total) ==
  IF computable THEN [up EXCEPT !.progress = <<ProgressPercent(loaded, total)>>]
  ELSE up

\* Variant: a 2xx body is handed to resolve without the try / catch.
XhrLoadUnguardedParse(up, status, body) ==
  LET got == [up EXCEPT !.xhr = "loaded",
                        !.response = <<[status |-> status, body |-> body]>>]
  IN  IF status >= 200 /\ status < 300
      THEN IF body.parses THEN PromiseResolve(got, body) ELSE got
      ELSE IF body.parses
           THEN PromiseReject(got, Err("Error", IF body.detail # ""
                                                THEN body.detail
                                                ELSE "Upload failed"))
           ELSE PromiseReject(got,
                  Err("Error", "Upload failed with status " \o ToString(status)))

\* The 'load' listener.
XhrLoad(up, status, body) ==
  LET got == [up EXCEPT !.xhr = "loaded",
                        !.response = <<[status |-> status, body |-> body]>>]
  IN  IF status >= 200 /\ status < 300
      THEN IF body.parses THEN PromiseResolve(got, body)
           ELSE PromiseReject(got, Err("Error", "Invalid response from server"))
      ELSE IF body.parses
           THEN PromiseReject(got, Err("Error", IF body.detail # ""
                                                THEN body.detail
                                                ELSE "Upload failed"))
           ELSE PromiseReject(got,
                  Err("Error", "Upload failed with status " \o ToString(status)))

\* The 'error' listener.
XhrError(up) ==
  PromiseReject([up EXCEPT !.xhr = "errored"],
                Err("Error", "Network error during upload"))

(***************************************************************************)
(* The auth store (useAuthStore, persisted under 'auth-storage')           *)
(***************************************************************************)
\* Calls of login / signup that can be under way at once.
MaxAuthCalls == 2

AuthCallIds == 1..MaxAuthCalls

AuthKinds == {"login", "signup"}

Emails == {"ann@example.com", "bob@example.com"}

AccessTokens == {"tok-1", "tok-2"}

Credits == {0, 3}

\* How the fetch of a login / signup call can end without a success:
\* 2xx with an unparseable body, non-2xx with {detail}, non-2xx with an
\* unparseable body, or no response at all.
AuthFailureKinds == {"badjson", "http", "http_nojson", "network"}

AuthDetails == {"", "Invalid credentials"}

\* user: null, token: null, isAuthenticated: false
LoggedOut == [user |-> <<>>, token |-> <<>>, isAuthenticated |-> FALSE]

\* The user object of an auth response.
User(email, credits) ==
  [email |-> email, subscription_tier |-> "free", credits_remaining |-> credits]

\* The body of a successful auth response: it carries a user and an
\* access token.
AuthData(email, credits, tok) ==
  [user |-> User(email, credits), access_token |-> tok]

\* set({ user: data.user, token: data.access_token, isAuthenticated: true })
SetAuthenticated(data) ==
  [user |-> <<data.user>>, token |-> <<data.access_token>>,
   isAuthenticated |-> TRUE]

\* Variant: a user object is made when there is none.
SetCreditsCreatesUser(a, credits) ==
  [a EXCEPT !.user = IF a.user # <<>>
                     THEN <<[a.user[1] EXCEPT !.credits_remaining = credits]>>
                     ELSE <<User("", credits)>>]

\* set((state) => ({ user: state.user ? { ...state.user,
\*                                        credits_remaining: credits } : null }))
SetCredits(a, credits) ==
  [a EXCEPT !.user = IF a.user # <<>>
                     THEN <<[a.user[1] EXCEPT !.credits_remaining = credits]>>
                     ELSE <<>>]

\* The persist middleware writes the state under the store's name on
\* every set.
Persist(store, a) ==
  [store EXCEPT !["auth-storage"] = <<[state |-> a, version |-> 0]>>]

\* throw new Error(error.detail || 'Login failed') and the other ways a
\* call fails.
AuthError(kind, k, d) ==
  CASE k = "network" -> NetworkError
    [] k = "http" ->
         Err("Error", IF d # "" THEN d
                      ELSE IF kind = "login" THEN "Login failed"
                      ELSE "Signup failed")
    [] OTHER -> ParseError

IdleAuthCall ==
  [ state |-> "idle",    \* idle, inflight, resolved, rejected
    kind  |-> "",        \* login or signup, while in flight
    email |-> "",        \* its argument, while in flight
    stale |-> FALSE,     \* logout ran while the call was in flight
    error |-> <<>> ]     \* what the call threw, if it did

(***************************************************************************)
(* The upload page (UploadPage)                                            *)
(***************************************************************************)
\* const validTypes = ['video/mp4', 'video/quicktime', 'video/x-msvideo']
ValidTypes == {"video/mp4", "video/quicktime", "video/x-msvideo"}

\* const maxSize = 500 * 1024 * 1024
MaxFileSize == 500 * 1024 * 1024

\* setTimeout(() => router.push(...), 500)
RedirectDelay == 500

\* The files a user can drop or choose: name, MIME type, size in bytes.
File(name, type, size) == [name |-> name, type |-> type, size |-> size]

FileTypes == ValidTypes \cup {"image/png"}

FileSizes == {0, MaxFileSize - 1, MaxFileSize, MaxFileSize + 1}

\* e.dataTransfer.files[0] or e.target.files?.[0]: <<>> when there is none.
PickedFiles ==
  {<<>>} \cup {<<File("clip", ty, sz)>> : ty \in FileTypes, sz \in FileSizes}

\* validateFile(file): <<>> for null, else the error text.
ValidateFile(file) ==
  IF file.type \notin ValidTypes
  THEN <<"Please upload a valid video file (MP4, MOV, AVI)">>
  ELSE IF file.size > MaxFileSize
  THEN <<"File size must be less than 500MB">>
  ELSE <<>>

IdleForm ==
  [ mounted        |-> TRUE,
    uploadedFile   |-> <<>>,   \* useState<UploadedFile | null>: the file held
    isDragging     |-> FALSE,
    isProcessing   |-> FALSE,
    error          |-> <<>>,   \* useState<string | null>
    uploadProgress |-> 0,
    inflight       |-> 0,      \* upload requests of the page not yet ended
    redirect       |-> <<>>,   \* timer of router.push after a success
    route          |-> "/upload" ]

\* The body of handleDrop and handleFileInput from setError(null) on.
TakeFile(f, picked) ==
  LET cleared == [f EXCEPT !.error = <<>>]
  IN  IF picked = <<>> THEN cleared
      ELSE IF ValidateFile(picked[1]) # <<>>
      THEN [cleared EXCEPT !.error = ValidateFile(picked[1])]
      ELSE [cleared EXCEPT !.uploadedFile = picked]

\* The drop zone and the file input are rendered:
\* {!uploadedFile && !isProcessing && (...)}
CanPick(f) == f.mounted /\ f.uploadedFile = <<>> /\ ~f.isProcessing

\* Variant: the Generate button stays while an upload runs.
CanProcessWhileProcessing(f) == f.mounted /\ f.uploadedFile # <<>>

\* The file card with its remove and Generate buttons is rendered:
\* {uploadedFile && !isProcessing && (...)}
CanProcess(f) == f.mounted /\ f.uploadedFile # <<>> /\ ~f.isProcessing

\* The catch of handleProcess: setError(err.message),
\* setIsProcessing(false), setUploadProgress(0).
UploadFailed(f, e) ==
  [f EXCEPT !.error = <<e.message>>, !.isProcessing = FALSE,
            !.uploadProgress = 0]

\* handleProcess after the await returned: the redirect is scheduled.
UploadSucceeded(f, response) ==
  [f EXCEPT !.redirect = <<[delay |-> RedirectDelay, job_id |-> response.job_id]>>]

\* handleProcess from the point where `await api.uploadVideo(...)` ends,
\* given the upload as the event left it.
AfterUpload(f, up) ==
  LET ended == [f EXCEPT !.inflight = IF @ > 0 THEN @ - 1 ELSE 0]
  IN  IF up.outcome.state = "resolved"
      THEN UploadSucceeded(ended, up.outcome.value[1])
      ELSE UploadFailed(ended, up.outcome.value[1])

\* `/results/${response.job_id}`: a body without job_id gives "undefined".
ResultsRoute(jobId) ==
  "/results/" \o (IF jobId = "" THEN "undefined" ELSE jobId)

(***************************************************************************)
(* Initial state: no page, no poll, no upload, every job just created on   *)
(* the server; localStorage may or may not hold a token.                   *)
(***************************************************************************)
StoredTokens == {<<>>, <<"tok-1">>}

InitWith(toks) ==
  /\ job = [j \in JobIds |-> InitialSnapshot]
  /\ loop = [l \in LoopIds |-> IdleLoop]
  /\ pageInst = 0
  /\ pageMounted = FALSE
  /\ pageJobId = ""
  /\ jobStatus = <<>>
  /\ pageError = <<>>
  /\ shownJob = ""
  /\ upload = IdleUpload
  /\ auth = LoggedOut
  /\ authCalls = [i \in AuthCallIds |-> IdleAuthCall]
  /\ staleAuth = FALSE
  /\ form = IdleForm
  /\ localStorage \in {[k \in StorageKeys |-> IF k = "token" THEN tok ELSE <<>>] :
                         tok \in toks}

Init == InitWith(StoredTokens)

(***************************************************************************)
(* Actions                                                                 *)
(***************************************************************************)
\* The backend works on a job; it never leaves a terminal status.
ServerStep(j, s) ==
  /\ ~IsTerminal(job[j])
  /\ s # job[j]
  /\ job' = [job EXCEPT ![j] = s]
  /\ UNCHANGED <<loop, pageVars, localStorage, upload, authVars, form>>

\* Variant: the job polled is a field of the api object, so a call
\* redirects the polls already running.
CallSharedJobId(l, j, cb, ia) ==
  /\ ~loop[l].started
  /\ loop' = [m \in LoopIds |->
                IF m = l THEN PollJobStatus(j, cb, ia, 0)
                ELSE IF loop[m].started THEN [loop[m] EXCEPT !.jobId = j]
                ELSE loop[m]]
  /\ UNCHANGED <<job, pageVars, localStorage, upload, authVars, form>>

\* Some caller other than the results page calls api.pollJobStatus.
Call(l, j, cb, ia) ==
  /\ ~loop[l].started
  /\ loop' = [loop EXCEPT ![l] = PollJobStatus(j, cb, ia, 0)]
  /\ UNCHANGED <<job, pageVars, localStorage, upload, authVars, form>>

\* How a fetch ended, as the history keeps it: the detail counts only for
\* a non-2xx response with a JSON body.
Fetched(k, d) == [kind |-> k, detail |-> IF k = "http" THEN d ELSE ""]

\* The awaited getJobStatus call of lp ends with res (its fetch ended in way
\* k): the histories take note and poll() runs to its end.
Resume(lp, k, d, res) ==
  PollContinuation(
    [lp EXCEPT !.inflight = @ - 1,
               !.received = Record(@, res),
               !.fetched = Record(@, Fetched(k, d)),
               !.sawTerminal = @ \/ (res.ok /\ IsTerminal(res.value[1])),
               !.sawFailure = @ \/ ~res.ok],
    res)

\* The state setters of the page instance that started loop lp still act.
PageListens(lp) == lp.cb = "page" /\ pageMounted /\ lp.owner = pageInst

\* Variant: the status request is one that marks the job as failed on the
\* server when the client has had enough of it (a fetch that writes).
RespondWrites(l, k, d) ==
  /\ loop[l].inflight > 0
  /\ LET lp == loop[l]
         res == GetJobStatus(k, d, job[lp.jobId])
         after == Resume(lp, k, d, res)
     IN  /\ loop' = [loop EXCEPT ![l] = after]
         /\ job' = IF after.outcome.state = "rejected" /\ ~IsTerminal(job[lp.jobId])
                   THEN [job EXCEPT ![lp.jobId] = Snap("failed", 0, "", FALSE)]
                   ELSE job
  /\ UNCHANGED <<pageVars, localStorage, upload, authVars, form>>

\* The fetch of loop l ends in way k; poll() resumes and runs to its end.
\* For the page's loop, onUpdate is setJobStatus and a rejection reaches
\* .catch((err) => setError(err.message)) before the next macrotask.
Respond(l, k, d) ==
  /\ loop[l].inflight > 0
  /\ LET lp == loop[l]
         res == GetJobStatus(k, d, job[lp.jobId])
         after == Resume(lp, k, d, res)
         rejectedNow == /\ lp.outcome.state = "pending"
                        /\ after.outcome.state = "rejected"
     IN  /\ loop' = [loop EXCEPT ![l] = after]
         /\ jobStatus' = IF PageListens(lp) /\ res.ok THEN res.value
                         ELSE jobStatus
         /\ pageError' = IF PageListens(lp) /\ rejectedNow
                         THEN <<after.outcome.value[1].message>>
                         ELSE pageError
         /\ shownJob' = IF PageListens(lp) /\ (res.ok \/ rejectedNow)
                        THEN lp.jobId
                        ELSE shownJob
  /\ UNCHANGED <<job, pageInst, pageMounted, pageJobId, localStorage, upload, authVars, form>>

\* A timer of loop l fires: poll() runs up to its await.
TimerFire(l) ==
  /\ loop[l].timers # <<>>
  /\ loop' = [loop EXCEPT ![l] = Poll([@ EXCEPT !.timers = Tail(@)])]
  /\ UNCHANGED <<job, pageVars, localStorage, upload, authVars, form>>

\* The results page mounts for params.jobId = j; its effect starts a poll
\* unless jobId is empty.
PageMount(l, j) ==
  /\ ~pageMounted
  /\ pageInst < MaxMounts
  /\ ~loop[l].started
  /\ pageInst' = pageInst + 1
  /\ pageMounted' = TRUE
  /\ pageJobId' = j
  /\ jobStatus' = <<>>
  /\ pageError' = <<>>
  /\ shownJob' = ""
  /\ loop' = IF j = "" THEN loop
             ELSE [loop EXCEPT ![l] = PollJobStatus(j, "page", <<>>, pageInst')]
  /\ UNCHANGED <<job, localStorage, upload, authVars, form>>

\* params.jobId changes to j while the page instance stays mounted: its
\* state is kept and the effect, which depends on [jobId], runs again.
PageParams(l, j) ==
  /\ pageMounted
  /\ j # pageJobId
  /\ ~loop[l].started
  /\ pageJobId' = j
  /\ loop' = IF j = "" THEN loop
             ELSE [loop EXCEPT ![l] = PollJobStatus(j, "page", <<>>, pageInst)]
  /\ UNCHANGED <<job, pageInst, pageMounted, jobStatus, pageError, shownJob,
                 localStorage, upload, authVars, form>>

\* Variant: unmounting cancels the timers of the page's polls.
PageUnmountCancels ==
  /\ pageMounted
  /\ pageMounted' = FALSE
  /\ loop' = [l \in LoopIds |->
                IF loop[l].cb = "page" THEN [loop[l] EXCEPT !.timers = <<>>]
                ELSE loop[l]]
  /\ UNCHANGED <<job, pageInst, pageJobId, jobStatus, pageError, shownJob,
                 localStorage, upload, authVars, form>>

\* The results page unmounts; its effect has no cleanup.
PageUnmount ==
  /\ pageMounted
  /\ pageMounted' = FALSE
  /\ UNCHANGED <<job, loop, pageInst, pageJobId, jobStatus, pageError,
                 shownJob, localStorage, upload, authVars, form>>

\* One rendered screen of the results page: which of its four returns it
\* is, the text it shows and the label of its button ("" for none).
Screen(kind, text, button) == [kind |-> kind, text |-> text, button |-> button]

\* Variant: the render looks at the stored status before the error.
ViewStatusFirst ==
  IF jobStatus # <<>> /\ jobStatus[1].status # "completed"
  THEN Screen("processing", jobStatus[1].message, "")
  ELSE IF pageError # <<>> /\ pageError[1] # ""
  THEN Screen("error", pageError[1], "Try Again")
  ELSE Screen("processing", "Processing your video", "")

\* What ResultsPage renders from its state: if (error) comes first, then
\* if (!jobStatus || jobStatus.status !== 'completed'), then if (!results).
View ==
  IF pageError # <<>> /\ pageError[1] # ""
  THEN Screen("error", pageError[1], "Try Again")
  ELSE IF jobStatus = <<>> \/ jobStatus[1].status # "completed"
  THEN Screen("processing",
              IF jobStatus # <<>> /\ jobStatus[1].message # ""
              THEN jobStatus[1].message ELSE "Processing your video",
              "")
  ELSE IF ~jobStatus[1].results
  THEN Screen("loading", "Loading results...", "")
  ELSE Screen("results", "", "")

\* login(email, password) or signup(email, password) is called: the
\* request goes out and the call waits for the response.
AuthStart(i, kind, email) ==
  /\ authCalls[i].state # "inflight"
  /\ authCalls' = [authCalls EXCEPT ![i] =
                     [IdleAuthCall EXCEPT !.state = "inflight", !.kind = kind,
                                          !.email = email]]
  /\ UNCHANGED <<job, loop, pageVars, localStorage, upload, auth, staleAuth, form>>

\* The response of call i is a success: the call sets the store.
AuthOk(i, credits, tok) ==
  /\ authCalls[i].state = "inflight"
  /\ auth' = SetAuthenticated(AuthData(authCalls[i].email, credits, tok))
  /\ localStorage' = Persist(localStorage, auth')
  /\ staleAuth' = authCalls[i].stale
  /\ authCalls' = [authCalls EXCEPT ![i] =
                     [IdleAuthCall EXCEPT !.state = "resolved"]]
  /\ UNCHANGED <<job, loop, pageVars, upload, form>>

\* The request of call i fails in way k: the call throws.
AuthFail(i, k, d) ==
  /\ authCalls[i].state = "inflight"
  /\ authCalls' = [authCalls EXCEPT ![i] =
                     [IdleAuthCall EXCEPT
                        !.state = "rejected",
                        !.error = <<AuthError(authCalls[i].kind, k, d)>>]]
  /\ UNCHANGED <<job, loop, pageVars, localStorage, upload, auth, staleAuth, form>>

\* logout()
Logout ==
  /\ auth' = LoggedOut
  /\ localStorage' = Persist(localStorage, auth')
  /\ staleAuth' = FALSE
  /\ authCalls' = [i \in AuthCallIds |->
                     IF authCalls[i].state = "inflight"
                     THEN [authCalls[i] EXCEPT !.stale = TRUE]
                     ELSE authCalls[i]]
  /\ UNCHANGED <<job, loop, pageVars, upload, form>>

\* updateCredits(credits)
UpdateCredits(credits) ==
  /\ auth' = SetCredits(auth, credits)
  /\ localStorage' = Persist(localStorage, auth')
  /\ UNCHANGED <<job, loop, pageVars, upload, authCalls, staleAuth, form>>

\* Variant: the third stage starts as soon as there is any progress.
StagesEarlyThird(p) ==
  << IF p > 0 THEN "complete" ELSE "processing",
     IF p > 30 THEN "complete" ELSE IF p > 0 THEN "processing" ELSE "waiting",
     IF p > 60 THEN "complete" ELSE IF p > 0 THEN "processing" ELSE "waiting",
     IF p > 80 THEN "complete" ELSE IF p > 60 THEN "processing" ELSE "waiting",
     IF p > 95 THEN "complete" ELSE IF p > 80 THEN "processing" ELSE "waiting" >>

\* The status prop of the five ProcessingStage elements, in order, for
\* progress_percent = p.
Stages(p) ==
  << IF p > 0 THEN "complete" ELSE "processing",
     IF p > 30 THEN "complete" ELSE IF p > 0 THEN "processing" ELSE "waiting",
     IF p > 60 THEN "complete" ELSE IF p > 30 THEN "processing" ELSE "waiting",
     IF p > 80 THEN "complete" ELSE IF p > 60 THEN "processing" ELSE "waiting",
     IF p > 95 THEN "complete" ELSE IF p > 80 THEN "processing" ELSE "waiting" >>

\* The stages the page shows: {jobStatus && (...)} inside the processing
\* view; <<>> when they are not rendered.
StageStatuses ==
  IF jobStatus # <<>> /\ View.kind = "processing"
  THEN Stages(jobStatus[1].progress_percent)
  ELSE <<>>

\* The page's onUpdate callback, (status) => setJobStatus(status), runs
\* with snapshot s.
SetJobStatus(s) ==
  /\ pageMounted
  /\ pageJobId # ""
  /\ jobStatus' = <<s>>
  /\ shownJob' = pageJobId
  /\ UNCHANGED <<job, loop, pageInst, pageMounted, pageJobId, pageError,
                 localStorage, upload, authVars, form>>

\* Some caller calls api.uploadVideo(f, onProgress).
UploadCall(f) ==
  /\ ~upload.called
  /\ upload' = UploadVideo(f, GetToken)
  /\ UNCHANGED <<job, loop, pageVars, localStorage, authVars, form>>

\* The request body is on its way: a progress event.
UploadProgress(computable, loaded) ==
  /\ upload.xhr = "sending"
  /\ upload' = XhrProgress(upload, computable, loaded, ProgressTotal)
  /\ UNCHANGED <<job, loop, pageVars, localStorage, authVars, form>>

\* The response to POST /upload arrived.
UploadLoad(status, body) ==
  /\ upload.xhr = "sending"
  /\ upload' = XhrLoad(upload, status, body)
  /\ UNCHANGED <<job, loop, pageVars, localStorage, authVars, form>>

\* The request failed in the network.
UploadError ==
  /\ upload.xhr = "sending"
  /\ upload' = XhrError(upload)
  /\ UNCHANGED <<job, loop, pageVars, localStorage, authVars, form>>

\* handleDragOver / handleDragLeave on the drop zone.
FormDrag(over) ==
  /\ CanPick(form)
  /\ form.isDragging # over
  /\ form' = [form EXCEPT !.isDragging = over]
  /\ UNCHANGED <<job, loop, pageVars, localStorage, upload, authVars>>

\* handleDrop: a file (or nothing) is dropped on the drop zone.
FormDrop(picked) ==
  /\ CanPick(form)
  /\ form' = TakeFile([form EXCEPT !.isDragging = FALSE], picked)
  /\ UNCHANGED <<job, loop, pageVars, localStorage, upload, authVars>>

\* handleFileInput: a file (or nothing) is chosen in the file dialog.
FormFileInput(picked) ==
  /\ CanPick(form)
  /\ form' = TakeFile(form, picked)
  /\ UNCHANGED <<job, loop, pageVars, localStorage, upload, authVars>>

\* handleRemoveFile
FormRemoveFile ==
  /\ CanProcess(form)
  /\ form' = [form EXCEPT !.uploadedFile = <<>>, !.error = <<>>,
                          !.uploadProgress = 0]
  /\ UNCHANGED <<job, loop, pageVars, localStorage, upload, authVars>>

\* handleProcess up to its await: a click on the Generate button. With no
\* token stored uploadVideo throws and the catch runs before the next task.
FormProcess ==
  /\ CanProcess(form)
  /\ LET started == [form EXCEPT !.isProcessing = TRUE, !.error = <<>>,
                                 !.uploadProgress = 0]
         up == UploadVideo(form.uploadedFile[1], GetToken)
     IN  /\ upload' = up
         /\ form' = IF up.outcome.state = "rejected"
                    THEN UploadFailed(started, up.outcome.value[1])
                    ELSE [started EXCEPT !.inflight = @ + 1]
  /\ UNCHANGED <<job, loop, pageVars, localStorage, authVars>>

\* A progress event of the page's upload: onProgress is setUploadProgress.
FormProgress(computable, loaded) ==
  /\ form.inflight > 0
  /\ upload.xhr = "sending"
  /\ upload' = XhrProgress(upload, computable, loaded, ProgressTotal)
  /\ form' = IF computable
             THEN [form EXCEPT !.uploadProgress = upload'.progress[1]]
             ELSE form
  /\ UNCHANGED <<job, loop, pageVars, localStorage, authVars>>

\* The response to the page's upload arrived; handleProcess resumes.
FormLoad(status, body) ==
  /\ form.inflight > 0
  /\ upload.xhr = "sending"
  /\ upload' = XhrLoad(upload, status, body)
  /\ form' = AfterUpload(form, upload')
  /\ UNCHANGED <<job, loop, pageVars, localStorage, authVars>>

\* The page's upload failed in the network; handleProcess resumes.
FormError ==
  /\ form.inflight > 0
  /\ upload.xhr = "sending"
  /\ upload' = XhrError(upload)
  /\ form' = AfterUpload(form, upload')
  /\ UNCHANGED <<job, loop, pageVars, localStorage, authVars>>

\* The redirect timer fires: router.push(`/results/${response.job_id}`)
\* takes the user off the upload page.
FormRedirect ==
  /\ form.redirect # <<>>
  /\ form' = [form EXCEPT !.redirect = <<>>, !.mounted = FALSE,
                          !.route = ResultsRoute(form.redirect[1].job_id)]
  /\ UNCHANGED <<job, loop, pageVars, localStorage, upload, authVars>>

\* One call of pollJobStatus in the whole behaviour, for one job, from the
\* results page or from another caller whose callback returns.
TheJob == "job-a"

Next ==
  \/ \E s \in Snapshots : ServerStep(TheJob, s)
  \/ \E cb \in PlainCallbacks, ia \in IntervalArgs : Call(1, TheJob, cb, ia)
  \/ \E k \in TransportKinds, d \in Details : Respond(1, k, d)
  \/ TimerFire(1)
  \/ \E j \in {TheJob, ""} : PageMount(1, j)
  \/ PageUnmount

Spec == Init /\ [][Next]_vars

\* The same, where the event loop and the network do their part: a request
\* in flight ends (in a response or an error), a timer that was set fires,
\* and the backend finishes every job.
TerminalSnapshots == {s \in Snapshots : IsTerminal(s)}

JobFinishes == \E s \in TerminalSnapshots : ServerStep(TheJob, s)

RequestEnds == \E k \in TransportKinds, d \in Details : Respond(1, k, d)

\* Two calls of pollJobStatus for different jobs, running concurrently. The
\* fetches end in a snapshot or a network error.
TwoLoopKinds == {"ok", "network"}

TwoLoopSnapshots ==
  { Snap("pending", 0, "", FALSE),
    Snap("processing", 40, "Transcribing", FALSE),
    Snap("completed", 100, "Done", TRUE),
    Snap("failed", 40, "Transcription error", FALSE) }

JobOfLoop(l) == IF l = 1 THEN "job-a" ELSE "job-b"

NextTwo ==
  \/ \E j \in JobIds, s \in TwoLoopSnapshots : ServerStep(j, s)
  \/ \E l \in LoopIds : Call(l, JobOfLoop(l), "collect", <<>>)
  \/ \E l \in LoopIds, k \in TwoLoopKinds : Respond(l, k, "")
  \/ \E l \in LoopIds : TimerFire(l)

SpecTwo == Init /\ [][NextTwo]_vars

\* One call of uploadVideo; the stored token may also be the empty string.
UploadTokens == {<<>>, <<"">>, <<"tok-1">>, <<"tok-2">>}

InitUpload == InitWith(UploadTokens)

NextUpload ==
  \/ \E f \in Files : UploadCall(f)
  \/ \E c \in BOOLEAN, n \in 0..ProgressTotal : UploadProgress(c, n)
  \/ \E st \in HttpStatuses, b \in Bodies : UploadLoad(st, b)
  \/ UploadError

SpecUpload == InitUpload /\ [][NextUpload]_vars

\* pollJobStatus called by any caller with any string as the job id, the
\* empty one included. The server knows no job with an empty id: a query
\* for it ends in an error response or a transport failure.
AnyJobIds == {"", TheJob}

NextAnyId ==
  \/ \E s \in Snapshots : ServerStep(TheJob, s)
  \/ \E j \in AnyJobIds, cb \in PlainCallbacks : Call(1, j, cb, <<>>)
  \/ \E k \in TransportKinds, d \in Details :
       /\ loop[1].jobId = "" => k \in {"http", "http_nojson", "network"}
       /\ Respond(1, k, d)
  \/ TimerFire(1)
  \/ \E j \in AnyJobIds : PageMount(1, j)
  \/ PageUnmount

SpecAnyId == Init /\ [][NextAnyId]_vars

\* One call of pollJobStatus by a caller whose callback may throw on the
\* snapshot it is handed.
ThrowingCallbacks == {"throws", "collect"}

NextThrows ==
  \/ \E s \in Snapshots : ServerStep(TheJob, s)
  \/ \E cb \in ThrowingCallbacks, ia \in IntervalArgs : Call(1, TheJob, cb, ia)
  \/ \E k \in TransportKinds, d \in Details : Respond(1, k, d)
  \/ TimerFire(1)

SpecThrows == Init /\ [][NextThrows]_vars

\* The auth store alone, under any interleaving of its calls and of the
\* responses to login and signup.
NextAuth ==
  \/ \E i \in AuthCallIds, kind \in AuthKinds, e \in Emails : AuthStart(i, kind, e)
  \/ \E i \in AuthCallIds, c \in Credits, tok \in AccessTokens : AuthOk(i, c, tok)
  \/ \E i \in AuthCallIds, k \in AuthFailureKinds, d \in AuthDetails :
       AuthFail(i, k, d)
  \/ Logout
  \/ \E c \in Credits : UpdateCredits(c)

\* A browser whose storage is empty.
InitAuth == InitWith({<<>>})

SpecAuth == InitAuth /\ [][NextAuth]_vars

\* The results page while the user moves between the results of two jobs:
\* the router either mounts a new page instance or hands the mounted one a
\* new params.jobId.
NavSnapshots ==
  { Snap("processing", 40, "Transcribing", FALSE),
    Snap("completed", 100, "Done", TRUE) }

NextNav ==
  \/ \E j \in JobIds, s \in NavSnapshots : ServerStep(j, s)
  \/ \E l \in LoopIds, j \in JobIds : PageMount(l, j)
  \/ \E l \in LoopIds, j \in JobIds : PageParams(l, j)
  \/ PageUnmount
  \/ \E l \in LoopIds, k \in TwoLoopKinds : Respond(l, k, "")
  \/ \E l \in LoopIds : TimerFire(l)

SpecNav == Init /\ [][NextNav]_vars

\* The results page handed snapshots of a job in progress with any
\* progress_percent from a little below 0 to a little above 100.
MaxProgress == 110

ProgressValues == -10..MaxProgress

NextStages ==
  \/ PageMount(1, TheJob)
  \/ \E p \in ProgressValues : SetJobStatus(Snap("processing", p, "Working", FALSE))

SpecStages == Init /\ [][NextStages]_vars

\* The upload page with its user, the upload it starts and the events of
\* that upload.
NextForm ==
  \/ \E over \in BOOLEAN : FormDrag(over)
  \/ \E picked \in PickedFiles : FormDrop(picked)
  \/ \E picked \in PickedFiles : FormFileInput(picked)
  \/ FormRemoveFile
  \/ FormProcess
  \/ \E c \in BOOLEAN, n \in 0..ProgressTotal : FormProgress(c, n)
  \/ \E st \in HttpStatuses, b \in Bodies : FormLoad(st, b)
  \/ FormError
  \/ FormRedirect

SpecForm == Init /\ [][NextForm]_vars

LiveSpec ==
  /\ Spec
  /\ WF_vars(RequestEnds)
  /\ WF_vars(TimerFire(1))
  /\ WF_vars(JobFinishes)

(***************************************************************************)
(* Properties                                                              *)
(***************************************************************************)
\* The snapshots of a history of getJobStatus results that all returned.
SnapsOf(rs) == [i \in 1..Len(rs) |-> rs[i].value[1]]

AllReturned(rs) == \A i \in 1..Len(rs) : rs[i].ok

\* rs is a run of pending / processing snapshots.
AllNonTerminal(rs) ==
  \A i \in 1..Len(rs) : rs[i].ok /\ ~IsTerminal(rs[i].value[1])

Front(rs) == SubSeq(rs, 1, Len(rs) - 1)

Last(rs) == rs[Len(rs)]

\* rs is pending / processing snapshots followed by one snapshot of status st.
EndsWith(rs, st) ==
  /\ rs # <<>>
  /\ AllNonTerminal(Front(rs))
  /\ Last(rs).ok
  /\ Last(rs).value[1].status = st

\* C1: once a loop has received a completed or failed snapshot, no step
\* sends another status query for it: the count of queries stays, nothing is
\* in flight and no timer is left that would send one.
C1_NoQueryAfterTerminal ==
  [][\A l \in LoopIds :
       loop[l].sawTerminal =>
         /\ loop'[l].issued = loop[l].issued
         /\ loop'[l].inflight = 0
         /\ loop'[l].timers = <<>>]_vars

\* A loop saw a terminal snapshot as its third response.
C1_Witness ==
  \E l \in LoopIds :
    /\ loop[l].sawTerminal
    /\ Len(loop[l].received) = 3
    /\ loop[l].issued = 3

\* C2: a loop never has more than one status query in flight, and while one
\* is in flight no timer is pending that could send the next: a query is
\* sent only when the previous result has been processed.
C2_OneQueryInFlight ==
  \A l \in LoopIds : loop[l].inflight + Len(loop[l].timers) <= 1

\* The second query of a loop is in flight.
C2_Witness ==
  \E l \in LoopIds :
    /\ loop[l].inflight = 1
    /\ loop[l].issued = 2
    /\ Len(loop[l].received) = 1

C4_WitnessFallback ==
  \E l \in LoopIds :
    /\ EndsWith(loop[l].received, "failed")
    /\ Last(loop[l].received).value[1].message = ""
    /\ loop[l].outcome.value[1].message = "Job failed"

\* C5: as soon as one status query has failed in transport (network error,
\* non-2xx status, unparseable body) the promise is rejected with that
\* failure, the failed query is the last one the loop sent, nothing is in
\* flight and no timer is pending.
C5_TransportFailureRejects ==
  \A l \in LoopIds :
    LET lp == loop[l] IN
      /\ lp.sawFailure =>
           /\ lp.outcome.state = "rejected"
           /\ lp.inflight = 0
           /\ lp.timers = <<>>
      /\ \A i \in 1..Len(lp.received) :
           ~lp.received[i].ok =>
             /\ i = Len(lp.received)
             /\ lp.issued = i
             /\ lp.outcome = [state |-> "rejected",
                              value |-> lp.received[i].error]

\* The second query of a loop ended in a non-2xx response.
C5_Witness ==
  \E l \in LoopIds :
    /\ Len(loop[l].received) = 2
    /\ loop[l].received[1].ok
    /\ ~loop[l].received[2].ok
    /\ loop[l].outcome.value[1].message = "Job not found"

\* C6: resolve / reject is called at most once per pollJobStatus call, and
\* a settled promise keeps its state and value in every later step.
C6_SettledOnce ==
  [][\A l \in LoopIds :
       /\ loop'[l].settles <= 1
       /\ (loop'[l].settles = 1) = (loop'[l].outcome.state # "pending")
       /\ loop[l].outcome.state # "pending" =>
            /\ loop'[l].outcome = loop[l].outcome
            /\ loop'[l].settles = loop[l].settles]_vars

\* A promise was settled after two responses.
C6_Witness ==
  \E l \in LoopIds :
    /\ loop[l].settles = 1
    /\ loop[l].outcome.state = "rejected"
    /\ Len(loop[l].received) = 2

\* C7: a started loop that has received nothing yet has its first query in
\* flight and no timer pending (the first query does not wait); when the
\* first response is terminal it is the only query and it decides the
\* promise.
C7_FirstQueryImmediate ==
  \A l \in LoopIds :
    LET lp == loop[l] IN
      /\ lp.started /\ lp.received = <<>> =>
           lp.issued = 1 /\ lp.inflight = 1 /\ lp.timers = <<>>
      /\ (lp.received # <<>> /\ lp.received[1].ok
            /\ IsTerminal(lp.received[1].value[1])) =>
           /\ lp.issued = 1
           /\ Len(lp.received) = 1
           /\ lp.outcome.state =
                (IF lp.received[1].value[1].status = "completed"
                 THEN "resolved" ELSE "rejected")

\* The first response of a loop was completed.
C7_Witness ==
  \E l \in LoopIds :
    /\ Len(loop[l].received) = 1
    /\ EndsWith(loop[l].received, "completed")
    /\ loop[l].issued = 1
    /\ loop[l].outcome.state = "resolved"

\* The loop has seen neither a terminal snapshot nor a transport failure.
Running(lp) == lp.started /\ ~lp.sawTerminal /\ ~lp.sawFailure

C10_EventuallySettles ==
  \A l \in LoopIds :
    loop[l].started ~> (loop[l].outcome.state # "pending")

\* A loop settled after it had to wait for the job through three responses.
C10_Witness ==
  \E l \in LoopIds :
    /\ Len(loop[l].received) = 3
    /\ EndsWith(loop[l].received, "completed")
    /\ loop[l].outcome.state = "resolved"

RECURSIVE AloneAfter(_, _, _)
\* The state of a loop that runs alone from state lp (a query in flight)
\* and gets the results rs[i..], each later query sent when its timer fires.
AloneAfter(lp, hist, i) ==
  IF i > Len(hist.received) THEN lp
  ELSE LET f == hist.fetched[i]
           done == Resume(lp, f.kind, f.detail, hist.received[i])
       IN  IF i = Len(hist.received) THEN done
           ELSE AloneAfter(Poll([done EXCEPT !.timers = Tail(@)]), hist, i + 1)

\* The states a call with the arguments and the results of lp is in when it
\* is the only one: after its last result, before or after the next timer.
AloneStates(lp) ==
  LET start == Poll([IdleLoop EXCEPT !.started = TRUE, !.jobId = lp.jobId,
                                     !.cb = lp.cb, !.owner = lp.owner,
                                     !.interval = lp.interval])
      last == AloneAfter(start, lp, 1)
  IN  {last} \cup (IF last.timers # <<>>
                   THEN {Poll([last EXCEPT !.timers = Tail(@)])}
                   ELSE {})

\* C11: with two loops for different jobs interleaved in any way, a step
\* changes one loop at most, and each loop (its queries, callback
\* invocations, timers and outcome) is in a state it can be in when it runs
\* alone with the same arguments and the same results of its queries.
C11_LoopsIndependent ==
  [][\A l \in LoopIds :
       /\ loop'[l] # loop[l] =>
            \A m \in LoopIds \ {l} : loop'[m] = loop[m]
       /\ (loop'[l].started /\ Len(loop'[l].received) < MaxPolls) =>
            loop'[l] \in AloneStates(loop'[l])]_vars

\* Both loops ran to an end, one resolved and one rejected, each after a
\* first response that was not terminal.
C11_Witness ==
  /\ loop[1].jobId = "job-a" /\ loop[2].jobId = "job-b"
  /\ Len(loop[1].received) = 2 /\ Len(loop[2].received) = 2
  /\ loop[1].outcome.state = "resolved"
  /\ loop[2].outcome.state = "rejected"
  /\ Len(loop[1].calls) = 2

\* C12: every status query a loop has sent carried an Authorization header
\* holding a bearer token.
C12_StatusQueriesCarryToken ==
  \A l \in LoopIds :
    \A i \in 1..Len(loop[l].headers) :
      /\ loop[l].headers[i] # <<>>
      /\ loop[l].headers[i][1].scheme = "Bearer"
      /\ loop[l].headers[i][1].token # ""

\* C13: an upload request is opened and sent only with the header
\* "Bearer <token>" of a non-empty stored token; a call made with no token
\* stored is rejected with "Not authenticated. Please log in." and opens and
\* sends nothing.
C13_UploadNeedsToken ==
  /\ (upload.opened \/ upload.sent) =>
       /\ upload.token # <<>> /\ upload.token[1] # ""
       /\ upload.authorization =
            <<[scheme |-> "Bearer", token |-> upload.token[1]]>>
  /\ (upload.called /\ (upload.token = <<>> \/ upload.token = <<"">>)) =>
       /\ ~upload.opened /\ ~upload.sent /\ upload.xhr = "none"
       /\ upload.outcome =
            [state |-> "rejected",
             value |-> <<Err("Error", "Not authenticated. Please log in.")>>]

\* uploadVideo was called with no token stored.
C13_Witness ==
  /\ upload.called
  /\ upload.token = <<>>
  /\ upload.outcome.state = "rejected"

\* uploadVideo was called with a token stored and sent its request.
C13_WitnessSent ==
  /\ upload.sent
  /\ upload.authorization = <<[scheme |-> "Bearer", token |-> "tok-1"]>>

\* C14: every timer a loop has pending was set with a delay above zero.
C14_PositiveDelay ==
  \A l \in LoopIds :
    \A i \in 1..Len(loop[l].timers) : loop[l].timers[i] > 0

\* C15: a step in which a poll loop or the results page does anything (a
\* call, a query, a callback, a settlement, a timer set or fired) leaves
\* every job on the server as it was.
C15_PollingOnlyObserves ==
  [][(loop' # loop \/ pageVars' # pageVars) => job' = job]_vars

\* A loop was rejected by a network error on its third query while the job
\* on the server is still being processed.
C15_Witness ==
  \E l \in LoopIds :
    /\ Len(loop[l].received) = 3
    /\ loop[l].sawFailure
    /\ loop[l].outcome.state = "rejected"
    /\ job[loop[l].jobId].status = "processing"

\* The text getJobStatus is said to fail with on a non-2xx response.
DetailText(d) == IF d = "" THEN "Failed to get job status" ELSE d

\* C16 as stated: whenever a status query got a non-2xx response,
\* getJobStatus failed with the detail of the body (or "Failed to get job
\* status") and the promise is rejected with that error.
C16_NonSuccessAlwaysDetail ==
  \A l \in LoopIds :
    LET lp == loop[l] IN
      \A i \in 1..Len(lp.fetched) :
        lp.fetched[i].kind \in {"http", "http_nojson"} =>
          /\ ~lp.received[i].ok
          /\ lp.received[i].error[1].message = DetailText(lp.fetched[i].detail)
          /\ lp.outcome = [state |-> "rejected", value |-> lp.received[i].error]

\* C16 amended: a non-2xx response whose body parses as JSON makes
\* getJobStatus fail with the body's detail (or "Failed to get job status"
\* when it is empty); one whose body does not parse makes it fail with the
\* parse error; the promise is rejected with that same error either way.
C16_NonSuccessResponse ==
  \A l \in LoopIds :
    LET lp == loop[l] IN
      \A i \in 1..Len(lp.fetched) :
        /\ lp.fetched[i].kind = "http" =>
             /\ lp.received[i] =
                  Thrown(Err("Error", DetailText(lp.fetched[i].detail)))
             /\ lp.outcome = [state |-> "rejected", value |-> lp.received[i].error]
        /\ lp.fetched[i].kind = "http_nojson" =>
             /\ lp.received[i] = Thrown(ParseError)
             /\ lp.outcome = [state |-> "rejected", value |-> <<ParseError>>]

\* The second query of the page's loop got a non-2xx response with the
\* detail "Job not found".
C16_Witness ==
  \E l \in LoopIds :
    /\ Len(loop[l].fetched) = 2
    /\ loop[l].fetched[2] = [kind |-> "http", detail |-> "Job not found"]
    /\ loop[l].outcome =
         [state |-> "rejected", value |-> <<Err("Error", "Job not found")>>]

\* The responses of rs that getJobStatus returned, in order.
ReturnedOf(rs) == SelectSeq(rs, LAMBDA r : r.ok)

\* C17: a loop that was given a callback has invoked it once with the
\* snapshot of every response getJobStatus returned, in the order received
\* and whatever the status, and at each invocation the promise was still
\* pending and no next query was scheduled yet.
C17_CallbackBeforeOutcome ==
  \A l \in LoopIds :
    LET lp == loop[l] IN
      /\ lp.started /\ lp.cb # "none" =>
           /\ lp.calls = SnapsOf(ReturnedOf(lp.received))
           /\ Len(lp.callSaw) = Len(lp.calls)
      /\ \A i \in 1..Len(lp.callSaw) :
           lp.callSaw[i] = [settles |-> 0, timers |-> 0]

\* A loop with a callback received a failed snapshot after an earlier one:
\* the callback got both and the promise is rejected.
C17_Witness ==
  \E l \in LoopIds :
    LET lp == loop[l] IN
      /\ lp.cb # "none"
      /\ Len(lp.calls) = 2
      /\ lp.calls[2].status = "failed"
      /\ lp.outcome.state = "rejected"
      /\ lp.settles = 1

\* C18: while a status query of a loop stays outstanding, nothing about the
\* loop changes (no new query, no callback, no settling, no timer), however
\* many steps the rest of the system takes; and a loop with a query
\* outstanding has a pending promise and no timer that could act for it.
C18_HungRequestBlocksLoop ==
  [][\A l \in LoopIds :
       loop[l].inflight = 1 =>
         /\ loop[l].outcome = Unsettled
         /\ loop[l].timers = <<>>
         /\ loop'[l].inflight = 1 => loop'[l] = loop[l]]_vars

\* The second query of a loop is still outstanding although the job has
\* already finished on the server and the page that started it is gone.
C18_Witness ==
  \E l \in LoopIds :
    /\ loop[l].inflight = 1
    /\ loop[l].issued = 2
    /\ Len(loop[l].received) = 1
    /\ loop[l].cb = "page"
    /\ ~pageMounted
    /\ IsTerminal(job[loop[l].jobId])

\* The poll that the mounted page instance started has rejected.
PagePollRejected(l) ==
  /\ pageMounted
  /\ loop[l].cb = "page"
  /\ loop[l].owner = pageInst
  /\ loop[l].outcome.state = "rejected"

\* C19: once the poll of the mounted results page has rejected, the page
\* renders the failure screen with the message of the error and the "Try
\* Again" button, whatever job status it has stored; the rejected loop never
\* acts again, and a poll of the page starts only in a step that mounts a new
\* page instance (a navigation by the user).
C19_FailureViewNoRetry ==
  /\ [](\A l \in LoopIds :
          PagePollRejected(l) =>
            View = Screen("error", loop[l].outcome.value[1].message, "Try Again"))
  /\ [][\A l \in LoopIds :
          /\ loop[l].outcome.state = "rejected" => loop'[l] = loop[l]
          /\ (~loop[l].started /\ loop'[l].started /\ loop'[l].cb = "page")
               => (pageInst' # pageInst /\ pageMounted')]_vars

\* The page stored a processing snapshot, then its poll rejected on a
\* transport failure: the failure screen shows although a status is stored.
C19_Witness ==
  \E l \in LoopIds :
    /\ PagePollRejected(l)
    /\ jobStatus # <<>>
    /\ jobStatus[1].status = "processing"
    /\ loop[l].sawFailure
    /\ View.kind = "error"
    /\ View.text = NetworkError.message

\* The promise of the upload was settled with a rejection carrying text m.
UploadRejectedWith(m) ==
  upload.outcome = [state |-> "rejected", value |-> <<Err("Error", m)>>]

\* C20: resolve or reject of the upload's promise is called at most once,
\* and exactly once when the request has ended: a 2xx response with a JSON
\* body resolves with the body; a 2xx response whose body does not parse
\* rejects with "Invalid response from server"; a non-2xx response rejects
\* with the body's detail, with "Upload failed" when the body has none, and
\* with "Upload failed with status <code>" when the body does not parse; a
\* network error rejects with "Network error during upload".
C20_UploadSettlesOncePerEnding ==
  /\ upload.settles <= 1
  /\ upload.xhr = "sending" => upload.settles = 0 /\ upload.outcome = Unsettled
  /\ upload.xhr = "errored" =>
       upload.settles = 1 /\ UploadRejectedWith("Network error during upload")
  /\ upload.xhr = "loaded" =>
       LET st == upload.response[1].status
           body == upload.response[1].body
           success == st >= 200 /\ st < 300
       IN  /\ upload.settles = 1
           /\ (success /\ body.parses) =>
                upload.outcome = [state |-> "resolved", value |-> <<body>>]
           /\ (success /\ ~body.parses) =>
                UploadRejectedWith("Invalid response from server")
           /\ (~success /\ body.parses /\ body.detail # "") =>
                UploadRejectedWith(body.detail)
           /\ (~success /\ body.parses /\ body.detail = "") =>
                UploadRejectedWith("Upload failed")
           /\ (~success /\ ~body.parses) =>
                UploadRejectedWith("Upload failed with status " \o ToString(st))

\* The server answered 500 with a body that is not JSON.
C20_Witness ==
  /\ upload.xhr = "loaded"
  /\ upload.response[1].status = 500
  /\ ~upload.response[1].body.parses
  /\ upload.settles = 1
  /\ UploadRejectedWith("Upload failed with status 500")

\* The server answered 2xx with a body that is not JSON.
C20_WitnessInvalid ==
  /\ upload.xhr = "loaded"
  /\ upload.response[1].status = 299
  /\ UploadRejectedWith("Invalid response from server")

\* C21: a loop that has sent a status query has a non-empty job id, whether
\* the results page or another caller started it.
C21_NoEmptyJobId ==
  \A l \in LoopIds :
    (loop[l].started /\ loop[l].issued > 0) => loop[l].jobId # ""

\* The part of C21 about the page: a page whose jobId is empty has started
\* no poll.
C21_PageGuardsJobId ==
  \A l \in LoopIds :
    (loop[l].started /\ loop[l].cb = "page") => loop[l].jobId # ""

\* C22: a loop whose callback threw on a snapshot, whatever its status, is
\* rejected with the exception thrown, was never resolved, and has sent no
\* query after the one that brought the snapshot: none is in flight and no
\* timer is set.
C22_CallbackThrowRejects ==
  \A l \in LoopIds :
    LET lp == loop[l] IN
      (lp.cb = "throws" /\ lp.calls # <<>>) =>
        /\ lp.outcome = [state |-> "rejected", value |-> <<CallbackError>>]
        /\ lp.settles = 1
        /\ lp.issued = Len(lp.received)
        /\ lp.inflight = 0
        /\ lp.timers = <<>>

\* The callback threw on a completed snapshot.
C22_Witness ==
  \E l \in LoopIds :
    /\ loop[l].cb = "throws"
    /\ loop[l].calls # <<>>
    /\ loop[l].calls[1].status = "completed"
    /\ loop[l].outcome.state = "rejected"

\* C23: while the auth store is authenticated, the token ApiClient.getToken
\* reads from storage is the store's access token.
C23_GetTokenReadsStoreToken ==
  auth.isAuthenticated => GetToken = auth.token

\* C24: in every state of the store, isAuthenticated, a non-null token and
\* a non-null user go together; a login or signup that fails leaves user,
\* token and isAuthenticated as they were; updateCredits changes nothing but
\* credits_remaining of the user.
C24_AuthStoreConsistent ==
  /\ [](/\ auth.isAuthenticated <=> auth.token # <<>>
        /\ auth.isAuthenticated <=> auth.user # <<>>)
  /\ [][/\ (\E i \in AuthCallIds :
              authCalls[i].state = "inflight" /\ authCalls'[i].state = "rejected")
             => auth' = auth
        /\ (\E c \in Credits : UpdateCredits(c))
             => \/ auth' = auth
                \/ /\ auth.user # <<>> /\ auth'.user # <<>>
                   /\ auth' = [auth EXCEPT
                                 !.user[1].credits_remaining =
                                    auth'.user[1].credits_remaining]]_vars

\* updateCredits changed the credits of a logged-in user after a call of
\* signup had failed.
C24_Witness ==
  /\ auth.isAuthenticated
  /\ auth.user[1].credits_remaining = 3
  /\ auth.token = <<"tok-2">>
  /\ \E i \in AuthCallIds :
       /\ authCalls[i].state = "rejected"
       /\ authCalls[i].error = <<Err("Error", "Signup failed")>>

\* C25: the store never becomes authenticated through a login or signup
\* call that was already in flight when logout ran.
C25_NoStaleReauthentication ==
  [][(~auth.isAuthenticated /\ auth'.isAuthenticated) => ~staleAuth']_vars

\* The loops the results page started that are still at work.
ActivePagePolls == {l \in LoopIds : loop[l].cb = "page" /\ Running(loop[l])}

\* C26: the status and the error the mounted page holds were set by the
\* poll for its current jobId, and at most one poll started by the page is
\* active.
C26_PageShowsCurrentJob ==
  /\ (pageMounted /\ (jobStatus # <<>> \/ pageError # <<>>))
       => shownJob = pageJobId
  /\ Cardinality(ActivePagePolls) <= 1

\* The part of C26 that does not depend on the router keeping the page
\* instance: no two polls started by the page are active at once.
C26_OneActivePagePoll == Cardinality(ActivePagePolls) <= 1

\* The poll that the mounted page instance started has resolved.
PagePollResolved(l) ==
  /\ pageMounted
  /\ loop[l].cb = "page"
  /\ loop[l].owner = pageInst
  /\ loop[l].outcome.state = "resolved"

\* C27: once the poll of the mounted page has resolved, the page comes to
\* show the results screen or the failure screen (unless the user leaves
\* it), also when the completed snapshot carries no results.
C27_CompletedLeadsToResults ==
  (\E l \in LoopIds : PagePollResolved(l))
    ~> (~pageMounted \/ View.kind \in {"results", "error"})

\* The state the page is left in by a completed snapshot without results.
C27_StuckLoading ==
  \E l \in LoopIds :
    /\ PagePollResolved(l)
    /\ ~jobStatus[1].results
    /\ View = Screen("loading", "Loading results...", "")

\* C28: the five stage statuses the page shows are a run of "complete",
\* then at most one "processing", then only "waiting": nothing but
\* "waiting" follows a "waiting" stage, nothing but "complete" precedes a
\* "complete" stage, and at most one stage is "processing".
C28_StagesOrdered ==
  LET st == StageStatuses IN
    st # <<>> =>
      /\ Len(st) = 5
      /\ \A i \in 1..Len(st) : st[i] \in {"complete", "processing", "waiting"}
      /\ \A i, j \in 1..Len(st) :
           i < j => /\ st[i] = "waiting" => st[j] = "waiting"
                    /\ st[j] = "complete" => st[i] = "complete"
      /\ Cardinality({i \in 1..Len(st) : st[i] = "processing"}) <= 1

\* progress_percent is exactly on the second threshold.
C28_Witness ==
  /\ jobStatus # <<>>
  /\ jobStatus[1].progress_percent = 30
  /\ StageStatuses = <<"complete", "processing", "waiting", "waiting", "waiting">>

\* The upload page as a failed upload with error e leaves it, from f.
AfterFailure(f, e) ==
  [f EXCEPT !.isProcessing = FALSE, !.uploadProgress = 0,
            !.error = <<e.message>>, !.inflight = 0]

\* C29: the upload page never has two uploads in flight, and while one is
\* in flight a file is selected and isProcessing is true; an upload starts
\* only in a step taken with a file selected and isProcessing false;
\* isProcessing goes back to false only when the upload fails; and a
\* failure sets isProcessing to false, uploadProgress to 0 and the error
\* to the message, leaving everything else, the selected file included.
C29_OneUploadAtATime ==
  /\ [](/\ form.inflight <= 1
        /\ form.inflight = 1 =>
             /\ form.isProcessing
             /\ form.uploadedFile # <<>>
             /\ upload.xhr = "sending")
  /\ [][/\ upload'.called /\ upload' # upload /\ upload'.xhr \in {"none", "sending"}
             /\ upload'.progress = <<>>
             => form.uploadedFile # <<>> /\ ~form.isProcessing
        /\ (form.isProcessing /\ ~form'.isProcessing)
             => upload'.outcome.state = "rejected"
        /\ (upload' # upload /\ upload'.outcome.state = "rejected")
             => form' = AfterFailure(form, upload'.outcome.value[1])]_vars

\* An upload of the page is in flight and two thirds of its body are sent.
C29_Witness ==
  /\ form.inflight = 1
  /\ form.isProcessing
  /\ form.error = <<>>
  /\ upload.xhr = "sending"
  /\ upload.progress = <<67>>
  /\ form.uploadProgress = 67

\* The upload failed with the server's detail and the page is ready for
\* another attempt with the file it still holds.
C29_WitnessFailed ==
  /\ form.error = <<"Insufficient credits">>
  /\ ~form.isProcessing
  /\ form.uploadProgress = 0
  /\ form.uploadedFile # <<>>
  /\ upload.xhr = "loaded"

\* C30: a file the upload page holds, and any file handed to uploadVideo,
\* has one of the three video types and a size below 500MB.
C30_HeldFileIsValid ==
  /\ form.uploadedFile # <<>> =>
       /\ form.uploadedFile[1].type \in {"video/mp4", "video/quicktime", "video/x-msvideo"}
       /\ form.uploadedFile[1].size < 500 * 1024 * 1024
  /\ upload.called =>
       /\ upload.file.type \in {"video/mp4", "video/quicktime", "video/x-msvideo"}
       /\ upload.file.size < 500 * 1024 * 1024

\* The parts of C30 that hold: a held file passed validateFile, and a file
\* that fails validation sets the error and is not taken.
C30_HeldFilePassedValidation ==
  /\ form.uploadedFile # <<>> => ValidateFile(form.uploadedFile[1]) = <<>>
  /\ upload.called => ValidateFile(upload.file) = <<>>

====
